---- MODULE Spec2Model ----
(***************************************************************************)
(* Model of main.py: a Flask application with three routes, started under  *)
(* TLS on 0.0.0.0:5000 with debug mode on.                                 *)
(*                                                                         *)
(* Paths of the file system are sequences of components (<<"srv",          *)
(* "templates", "auth.js">> is /srv/templates/auth.js); URL paths are      *)
(* sequences of segments (<<>> is "/", <<"home">> is "/home").  A request  *)
(* is a method and a path: it carries no query string and no conditional   *)
(* or range header.                                                        *)
(*                                                                         *)
(* A file's contents are a sequence of tokens.  "h" is a byte of ordinary  *)
(* text, "\n" a line feed, "\r\n" a carriage return and line feed; the     *)
(* others are pieces of template syntax: "{# note #}" a comment,           *)
(* "{% if 0 %}h{% endif %}" a statement, "{{ 1+1 }}" an expression,        *)
(* "{{ 1/0 }}" an expression that parses and raises when it is evaluated,  *)
(* "{%" a tag that is never closed.  A body is a sequence of the same      *)
(* kind; "2" is the digit the expression evaluates to.                     *)
(*                                                                         *)
(* Spec is the server in all the ways it can be started, asked for any     *)
(* path by any method; SpecPages is a server that has started, asked for   *)
(* its pages while the templates change under it.                          *)
(***************************************************************************)
EXTENDS Integers, Sequences, FiniteSets, TLC

VARIABLES
    cwd,          \* working directory the interpreter was started in
    file,         \* __file__ of main.py, as given on the command line
    name,         \* __name__ of the module: "__main__" when run as a script
    argv,         \* command-line arguments after the script
    environ,      \* environment variables of the process
    port_busy,    \* TRUE when another process already holds port 5000
    host_trusted, \* TRUE when clients reach the server under a host name the
                  \* debugger trusts (localhost, 127.0.0.1)
    fs,           \* the file system: path -> [exists, data]
    pc,           \* "boot", "main", "listening", "exited", "imported"
    app,          \* the Flask object: [root_path, url_map, debug]
    root,         \* module global root
    BASE_DIR,     \* module global BASE_DIR
    cert_path,    \* module global cert_path
    key_path,     \* module global key_path
    listener,     \* <<>> or <<the one listening socket's configuration>>
    exit_code,    \* -1 while the process runs, else its exit status
    threads,      \* number of handler threads running: each holds an accepted
                  \* connection whose request it has not answered yet
    jinja_cache,  \* the template engine's cache: template name -> <<>> or
                  \* <<the source the compiled template was loaded from>>
    frames,       \* the debugger's frame store: "console" once the console
                  \* has been shown, and the exceptions whose tracebacks it keeps
    req,          \* the request answered last, while no file has changed since
    resp          \* the answer to it

vars == <<cwd, file, name, argv, environ, port_busy, host_trusted, fs, pc, app,
          root, BASE_DIR, cert_path, key_path, listener, exit_code, threads,
          jinja_cache, frames, req, resp>>

envVars == <<cwd, file, name, argv, environ, port_busy, host_trusted>>
globals == <<app, root, BASE_DIR, cert_path, key_path>>

\* connections the threaded server handles at once
MaxThreads == 2

----
\* The file system and os.path

SrvDir == <<"srv">>
WorkDir == <<"work">>

Missing == [exists |-> FALSE, data |-> <<>>]
File(d) == [exists |-> TRUE, data |-> d]

LandingFile == <<"srv", "templates", "landing_page.html">>
HomeFile == <<"srv", "templates", "home.html">>
AuthFile == <<"srv", "templates", "auth.js">>
StaticFile == <<"srv", "static", "app.css">>
CertFile == <<"srv", "certificates", "cert.pem">>
KeyFile == <<"srv", "certificates", "key.pem">>
WorkAuthFile == <<"work", "templates", "auth.js">>
WorkCertFile == <<"work", "certificates", "cert.pem">>
WorkKeyFile == <<"work", "certificates", "key.pem">>

ContentFiles == {LandingFile, HomeFile, AuthFile, StaticFile}
Files == ContentFiles \cup {CertFile, KeyFile, WorkAuthFile, WorkCertFile, WorkKeyFile}

\* What each served file may hold: absent, or one of a few texts.
Contents(f) ==
    CASE f = LandingFile ->
            {Missing,
             File(<<"{# note #}", "{% if 0 %}h{% endif %}", "\n">>),
             File(<<"h", "\r\n", "{{ 1+1 }}", "\n">>),
             File(<<"{%">>),
             File(<<"h", "{{ 1/0 }}">>)}
      [] f = HomeFile ->
            {Missing,
             File(<<>>),
             File(<<"h", "\n">>),
             File(<<"{%">>),
             File(<<"{{ 1/0 }}">>)}
      [] f = AuthFile -> {Missing, File(<<"h", "\n">>), File(<<"{%">>)}
      [] f = StaticFile -> {Missing, File(<<"h">>)}
Certs == {Missing, File(<<"garbage">>), File(<<"CERT", "k1">>)}
Keys == {Missing, File(<<"garbage">>), File(<<"KEY", "k1">>), File(<<"KEY", "k2">>)}

Read(p) == IF p \in DOMAIN fs THEN fs[p] ELSE Missing

RECURSIVE NormParts(_, _)
NormParts(acc, rest) ==
    IF rest = <<>> THEN acc
    ELSE IF Head(rest) = ".."
         THEN NormParts(IF acc = <<>> THEN <<>> ELSE SubSeq(acc, 1, Len(acc) - 1),
                        Tail(rest))
         ELSE IF Head(rest) = "."
              THEN NormParts(acc, Tail(rest))
              ELSE NormParts(Append(acc, Head(rest)), Tail(rest))

\* os.path.abspath(p) for a path p relative to the working directory.
abspath(p) == NormParts(<<>>, cwd \o p)
dirname(p) == IF p = <<>> THEN <<>> ELSE SubSeq(p, 1, Len(p) - 1)
join(a, b) == a \o b

----
\* Flask, Werkzeug and Jinja, as main.py uses them

Methods == {"GET", "HEAD", "OPTIONS", "POST", "PUT", "DELETE"}
Paths == {<<>>, <<"home">>, <<"auth.js">>, <<"does-not-exist">>,
          <<"static", "app.css">>, <<"certificates", "key.pem">>,
          <<"console">>}
Schemes == {"https", "http"}

\* A rule registered by @app.route(rule) without a methods list accepts GET,
\* and the framework adds HEAD and OPTIONS.
DefaultMethods == {"GET", "HEAD", "OPTIONS"}
Rule(r, e) == [rule |-> r, endpoint |-> e, methods |-> DefaultMethods]

\* Flask(__name__): the application's root path is the directory of the
\* module's file, and the static route /static/<path:filename> is registered.
Flask == [root_path |-> dirname(abspath(file)),
          url_map |-> {Rule(<<"static", "<path:filename>">>, "static")},
          debug |-> FALSE]

IsConverter(seg) == seg = "<path:filename>"
HasConverter(r) == Len(r) > 0 /\ IsConverter(r[Len(r)])
Matches(r, path) ==
    IF HasConverter(r)
    THEN /\ Len(path) >= Len(r)
         /\ SubSeq(path, 1, Len(r) - 1) = SubSeq(r, 1, Len(r) - 1)
    ELSE path = r

\* The rule the router picks for a path: a literal rule before one with a
\* converter.  {} when no rule matches.
match(path) ==
    LET ms == {r \in app.url_map : Matches(r.rule, path)}
        lit == {r \in ms : ~HasConverter(r.rule)}
    IN  IF lit # {} THEN {CHOOSE r \in lit : TRUE}
        ELSE IF ms # {} THEN {CHOOSE r \in ms : TRUE}
        ELSE {}

\* The names a template can be asked for by: the files of templates/.
TemplateNames == {"landing_page.html", "home.html", "auth.js"}
\* The in-process state of the two frameworks in a process that has served
\* nothing yet.
EmptyCache == [n \in TemplateNames |-> <<>>]
NoFrames == {}

\* What a view hands back: files are the files read to build it, error the
\* exception that produced it ("" when there was none), cache the template
\* cache as the view leaves it.
Answer(st, ct, b, fl, err) ==
    [status |-> st, ctype |-> ct, body |-> b, files |-> fl, error |-> err,
     cache |-> jinja_cache]
NotFound(err) == Answer(404, "text/html", <<"Not Found">>, {}, err)
MethodNotAllowed == Answer(405, "text/html", <<"Method Not Allowed">>, {}, "MethodNotAllowed")
\* An exception that is not an HTTP error escapes the view: Flask's own page
\* for it is this one; with debug on the debugger's page takes its place.
InternalServerError(fl, err) ==
    Answer(500, "text/html", <<"Internal Server Error">>, fl, err)

\* Jinja.  The lexer drops one final newline of the source
\* (keep_trailing_newline is off) and turns every other newline into "\n".
Newlines == {"\n", "\r\n"}
Lex(src) ==
    IF Len(src) > 0 /\ src[Len(src)] \in Newlines
    THEN SubSeq(src, 1, Len(src) - 1)
    ELSE src
\* The parser rejects a tag that is never closed.
SyntaxOk(src) == \A i \in 1..Len(src) : src[i] # "{%"
\* What one token of the source renders to.
Emit(tok) ==
    CASE tok = "{# note #}" -> <<>>
      [] tok = "{% if 0 %}h{% endif %}" -> <<>>
      [] tok = "{{ 1+1 }}" -> <<"2">>
      [] tok = "\r\n" -> <<"\n">>
      [] OTHER -> <<tok>>
RECURSIVE EmitAll(_)
EmitAll(toks) ==
    IF toks = <<>> THEN <<>> ELSE Emit(Head(toks)) \o EmitAll(Tail(toks))
\* The exception rendering ends in, "" when it ends well.
RenderError(src) ==
    IF \E i \in 1..Len(src) : src[i] = "{{ 1/0 }}" THEN "ZeroDivisionError"
    ELSE ""
Render(src) == EmitAll(Lex(src))

\* Environment.get_template(name): the compiled template comes from the cache
\* when it is there and, auto_reload being on exactly when debug is, when its
\* file is still as it was loaded (Jinja compares the file's modification
\* time, which every edit changes); otherwise the file is read and compiled,
\* and cached once it has compiled.
get_template(template_name) ==
    LET path == join(join(app.root_path, <<"templates">>), <<template_name>>)
        f == Read(path)
        c == jinja_cache[template_name]
        up_to_date == c # <<>> /\ f.exists /\ f.data = c[1]
    IN  IF c # <<>> /\ (~app.debug \/ up_to_date)
        THEN [error |-> "", source |-> c[1], files |-> {}, cache |-> jinja_cache]
        ELSE IF ~f.exists
        THEN [error |-> "TemplateNotFound", source |-> <<>>, files |-> {},
              cache |-> jinja_cache]
        ELSE IF ~SyntaxOk(f.data)
        THEN [error |-> "TemplateSyntaxError", source |-> <<>>, files |-> {path},
              cache |-> jinja_cache]
        ELSE [error |-> "", source |-> f.data, files |-> {path},
              cache |-> [jinja_cache EXCEPT ![template_name] = <<f.data>>]]

\* a missing template answered with an empty page
render_template_lenient(template_name) ==
    LET t == get_template(template_name)
    IN  IF t.error = "TemplateNotFound"
        THEN Answer(200, "text/html", <<>>, {}, "")
        ELSE IF t.error # ""
        THEN [InternalServerError(t.files, t.error) EXCEPT !.cache = t.cache]
        ELSE IF RenderError(t.source) # ""
        THEN [InternalServerError(t.files, RenderError(t.source))
                EXCEPT !.cache = t.cache]
        ELSE [Answer(200, "text/html", Render(t.source), t.files, "")
                EXCEPT !.cache = t.cache]

render_template(template_name) ==
    LET t == get_template(template_name)
    IN  IF t.error # ""
        THEN [InternalServerError(t.files, t.error) EXCEPT !.cache = t.cache]
        ELSE IF RenderError(t.source) # ""
        THEN [InternalServerError(t.files, RenderError(t.source))
                EXCEPT !.cache = t.cache]
        ELSE [Answer(200, "text/html", Render(t.source), t.files, "")
                EXCEPT !.cache = t.cache]

\* mimetypes.guess_type goes by the name's suffix.  suffix is given for the
\* names of the files of templates/ and static/, types_map for their entries
\* of the table of a current Python.
suffix(n) ==
    CASE n = "auth.js" -> ".js"
      [] n = "app.css" -> ".css"
      [] n \in {"landing_page.html", "home.html"} -> ".html"
types_map(ext) ==
    CASE ext = ".js" -> "text/javascript"
      [] ext = ".css" -> "text/css"
      [] ext = ".html" -> "text/html"
guess_type(n) == types_map(suffix(n))
mimetype(filename) == guess_type(filename[Len(filename)])

send_from_directory(directory, filename) ==
    LET path == join(directory, filename)
        f == Read(path)
    IN  IF \E i \in 1..Len(filename) : filename[i] = ".." THEN NotFound("NotFound")
        ELSE IF ~f.exists THEN NotFound("FileNotFound")
        ELSE Answer(200, mimetype(filename), f.data, {path}, "")

\* ssl.SSLContext.load_cert_chain(certfile, keyfile): the certificate chain
\* is opened and parsed first, and only then the key file is opened, parsed
\* and matched against the certificate.
load_cert_chain(certfile, keyfile) ==
    LET c == Read(certfile)
        k == Read(keyfile)
    IN  IF ~c.exists THEN "FileNotFoundError"
        ELSE IF ~(Len(c.data) = 2 /\ c.data[1] = "CERT") THEN "SSLError"
        ELSE IF ~k.exists THEN "FileNotFoundError"
        ELSE IF ~(Len(k.data) = 2 /\ k.data[1] = "KEY") THEN "SSLError"
        ELSE IF c.data[2] # k.data[2] THEN "SSLError"
        ELSE "ok"

----
\* main.py

\* the working directory in place of the file's directory
root_value_cwd == cwd
\* line 5
root_value == dirname(abspath(file))
\* line 6
BASE_DIR_value == dirname(abspath(file))
\* line 8
cert_path_value == join(BASE_DIR_value, <<"certificates", "cert.pem">>)
\* line 9
key_path_value == join(BASE_DIR_value, <<"certificates", "key.pem">>)

\* a catch-all rule that sends every other path to the landing page
routes_catchall ==
    {Rule(<<>>, "landing_page"), Rule(<<"auth.js">>, "serve_auth"),
     Rule(<<"home">>, "home_page"), Rule(<<"<path:filename>">>, "landing_page")}
\* /home registered with methods=["GET", "POST"]
routes_post ==
    {Rule(<<>>, "landing_page"), Rule(<<"auth.js">>, "serve_auth"),
     [Rule(<<"home">>, "home_page") EXCEPT !.methods = @ \cup {"POST"}]}
\* lines 12, 16, 19: the three registrations
routes == {Rule(<<>>, "landing_page"),
           Rule(<<"auth.js">>, "serve_auth"),
           Rule(<<"home">>, "home_page")}

\* the landing page rendered from the other template
landing_page_home == render_template("home.html")
\* lines 13-14
landing_page == render_template("landing_page.html")

\* the script passed through the template engine
serve_auth_rendered ==
    LET a == render_template("auth.js")
    IN  [a EXCEPT !.ctype = mimetype(<<"auth.js">>)]
\* lines 17-18
serve_auth == send_from_directory(join(root, <<"templates">>), <<"auth.js">>)

\* the home page rendered from the other template
home_page_landing == render_template("landing_page.html")
\* lines 20-21
home_page == render_template("home.html")

\* Flask's own view of the static route
send_static_file(filename) ==
    send_from_directory(join(app.root_path, <<"static">>), filename)

view(endpoint, path) ==
    CASE endpoint = "landing_page" -> landing_page
      [] endpoint = "serve_auth" -> serve_auth
      [] endpoint = "home_page" -> home_page
      [] endpoint = "static" -> send_static_file(SubSeq(path, 2, Len(path)))

\* lines 23-26: the arguments of app.run
\* the server run without debug mode
run_debug_off == FALSE
run_debug == TRUE
run_host == "0.0.0.0"
\* the port taken from the environment when it is set there
run_port_env == IF "FLASK_RUN_PORT=8080" \in environ THEN 8080 ELSE 5000
run_port == 5000
\* no TLS material handed to app.run
ssl_context_none == <<>>
ssl_context == <<cert_path, key_path>>

NoRequest == [method |-> "", path |-> <<>>, scheme |-> ""]
NoResponse == [kind |-> "none", scheme |-> "", status |-> 0, ctype |-> "",
               body |-> <<>>, endpoint |-> "", files |-> {}, allow |-> {},
               error |-> "", stamped |-> FALSE]

\* Routing: no rule, 404; a rule that does not take the method, 405; OPTIONS
\* answered by the framework; otherwise the rule's view.
dispatch(method, path) ==
    LET m == match(path)
        r == CHOOSE x \in m : TRUE
    IN  IF m = {}
        THEN [a |-> NotFound("NotFound"), endpoint |-> "", allow |-> {}]
        ELSE IF method \notin r.methods
        THEN [a |-> MethodNotAllowed, endpoint |-> "", allow |-> r.methods]
        ELSE IF method = "OPTIONS"
        THEN [a |-> Answer(200, "text/html", <<>>, {}, ""), endpoint |-> "",
              allow |-> r.methods]
        ELSE [a |-> view(r.endpoint, path), endpoint |-> r.endpoint, allow |-> {}]

TlsOn == listener # <<>> /\ listener[1].ssl # <<>>

\* The application's answer to a request, and the in-process state it leaves.
\* stamped tells that the body carries ids made up for that one answer.
wsgi_app(method, path) ==
    LET d == dispatch(method, path)
    IN  [resp |-> [kind |-> "http",
                   scheme |-> IF TlsOn THEN "https" ELSE "http",
                   status |-> d.a.status,
                   ctype |-> d.a.ctype,
                   body |-> IF method = "HEAD" THEN <<>> ELSE d.a.body,
                   endpoint |-> d.endpoint,
                   files |-> d.a.files,
                   error |-> d.a.error,
                   allow |-> d.allow,
                   stamped |-> FALSE],
         cache |-> d.a.cache,
         frames |-> frames]

\* debug=True makes app.run wrap the application in werkzeug's
\* DebuggedApplication, with its console at /console.
console_path == <<"console">>

\* The console page; its frame is made when the page is first shown.  A
\* request under a host name the debugger does not trust is refused.
display_console(method) ==
    LET page == [NoResponse EXCEPT
                    !.kind = "http",
                    !.scheme = IF TlsOn THEN "https" ELSE "http",
                    !.ctype = "text/html",
                    !.endpoint = "debugger"]
    IN  IF ~host_trusted
        THEN [resp |-> [page EXCEPT
                          !.status = 400,
                          !.body = IF method = "HEAD" THEN <<>> ELSE <<"Bad Request">>,
                          !.error = "SecurityError"],
              cache |-> jinja_cache,
              frames |-> frames]
        ELSE [resp |-> [page EXCEPT
                          !.status = 200,
                          !.body = IF method = "HEAD" THEN <<>> ELSE <<"Console">>],
              cache |-> jinja_cache,
              frames |-> frames \cup {"console"}]

\* The application runs inside the debugger: an exception that escapes it is
\* answered with the traceback page, which carries the ids of that traceback
\* and of its frames, and the frames are kept for the console.
debug_application(method, path) ==
    LET r == wsgi_app(method, path)
    IN  IF r.resp.status = 500
        THEN [r EXCEPT
                !.resp.body = <<"Traceback">>,
                !.resp.stamped = TRUE,
                !.frames = @ \cup {r.resp.error}]
        ELSE r

DebuggedApplication(method, path) ==
    IF path = console_path THEN display_console(method)
    ELSE debug_application(method, path)

\* What the server answers to a request read from a connection.
Respond(method, path) ==
    IF app.debug THEN DebuggedApplication(method, path)
    ELSE wsgi_app(method, path)

----
\* The state machine

\* The ways the server is started: from its own directory and reached as
\* localhost, or from another directory, with flags and environment variables
\* that try to move the listener, and reached under another host name.
LaunchHome ==
    [cwd |-> SrvDir, file |-> <<"main.py">>, argv |-> <<>>, environ |-> {},
     host_trusted |-> TRUE]
LaunchAway ==
    [cwd |-> WorkDir, file |-> <<"..", "srv", "main.py">>,
     argv |-> <<"--host=127.0.0.1", "--port=8080">>,
     environ |-> {"FLASK_RUN_HOST=127.0.0.1", "FLASK_RUN_PORT=8080",
                  "FLASK_DEBUG=0"},
     host_trusted |-> FALSE]
Launches == {LaunchHome, LaunchAway}

\* The interpreter is about to run main.py, launched as l, with certificate
\* c, key k and the templates t of the landing page and h of the home page on
\* disk.
Boot(l, c, k, t, h) ==
    /\ cwd = l.cwd /\ file = l.file /\ argv = l.argv
    /\ environ = l.environ /\ host_trusted = l.host_trusted
    /\ fs = [f \in Files |->
               CASE f = LandingFile -> t
                 [] f = HomeFile -> h
                 [] f = AuthFile -> File(<<"h", "\n">>)
                 [] f = StaticFile -> Missing
                 [] f = CertFile -> c
                 [] f = KeyFile -> k
                 [] f = WorkAuthFile -> File(<<"h">>)
                 [] f = WorkCertFile -> File(<<"CERT", "k2">>)
                 [] f = WorkKeyFile -> File(<<"KEY", "k2">>)]
    /\ pc = "boot"
    /\ app = [root_path |-> <<>>, url_map |-> {}, debug |-> FALSE]
    /\ root = <<>>
    /\ BASE_DIR = <<>>
    /\ cert_path = <<>>
    /\ key_path = <<>>
    /\ listener = <<>>
    /\ exit_code = -1
    /\ threads = 0
    /\ jinja_cache = EmptyCache
    /\ frames = NoFrames
    /\ req = NoRequest
    /\ resp = NoResponse

Init ==
    /\ name \in {"__main__", "main"}
    /\ port_busy \in BOOLEAN
    /\ \E l \in Launches, c \in Certs, k \in Keys :
          \E t \in {Missing, File(<<"h", "\r\n", "{{ 1+1 }}", "\n">>)} :
             Boot(l, c, k, t, File(<<"h", "\n">>))

\* lines 1-21: the module body up to the __main__ guard
Import ==
    /\ pc = "boot"
    /\ app' = [Flask EXCEPT !.url_map = @ \cup routes]
    /\ root' = root_value
    /\ BASE_DIR' = BASE_DIR_value
    /\ cert_path' = cert_path_value
    /\ key_path' = key_path_value
    /\ pc' = "main"
    /\ UNCHANGED <<envVars, fs, listener, exit_code, threads, jinja_cache,
                   frames, req, resp>>

\* lines 22-26: app.run under the __main__ guard.  The socket is bound, then
\* the certificate chain is loaded; either failure ends the process.
Main ==
    /\ pc = "main"
    /\ IF name # "__main__"
       THEN /\ pc' = "imported"
            /\ UNCHANGED <<app, listener, exit_code>>
       ELSE /\ app' = [app EXCEPT !.debug = run_debug]
            /\ IF port_busy
               THEN pc' = "exited" /\ exit_code' = 1 /\ UNCHANGED listener
               ELSE IF ssl_context = <<>>
               THEN /\ pc' = "listening"
                    /\ listener' = <<[host |-> run_host, port |-> run_port,
                                      debug |-> run_debug, ssl |-> <<>>]>>
                    /\ UNCHANGED exit_code
               ELSE IF load_cert_chain(ssl_context[1], ssl_context[2]) # "ok"
               THEN pc' = "exited" /\ exit_code' = 1 /\ UNCHANGED listener
               ELSE /\ pc' = "listening"
                    /\ listener' = <<[host |-> run_host, port |-> run_port,
                                      debug |-> run_debug,
                                      ssl |-> <<Read(ssl_context[1]).data,
                                                Read(ssl_context[2]).data>>]>>
                    /\ UNCHANGED exit_code
    /\ UNCHANGED <<envVars, fs, root, BASE_DIR, cert_path, key_path, threads,
                   jinja_cache, frames, req, resp>>

\* The server is threaded: it accepts a connection and hands it to a new
\* thread, and goes on accepting while that thread runs.
Accept ==
    /\ pc = "listening"
    /\ threads < MaxThreads
    /\ threads' = threads + 1
    /\ UNCHANGED <<envVars, fs, pc, globals, listener, exit_code, jinja_cache,
                   frames, req, resp>>

\* One of the running threads reads the request its client sends, answers it
\* and ends; which thread comes first is open, so requests are answered in any
\* order and while other connections are open.  Answering is one step: a view
\* touches what the threads share at one point, where it reads its file and
\* the template cache, which Jinja guards with a lock.  A client whose scheme
\* is not the listener's gets no HTTP answer: the handshake fails before any
\* request is read.
Handle(method, path, scheme) ==
    /\ pc = "listening"
    /\ threads > 0
    /\ threads' = threads - 1
    /\ IF (scheme = "https") = TlsOn
       THEN LET r == Respond(method, path)
            IN  /\ req' = [method |-> method, path |-> path, scheme |-> scheme]
                /\ resp' = r.resp
                /\ jinja_cache' = r.cache
                /\ frames' = r.frames
       ELSE /\ req' = [NoRequest EXCEPT !.scheme = scheme]
            /\ resp' = [NoResponse EXCEPT !.kind = "tls_error"]
            /\ UNCHANGED <<jinja_cache, frames>>
    /\ UNCHANGED <<envVars, fs, pc, globals, listener, exit_code>>

\* Somebody outside the process replaces or removes one of the served files;
\* the answer given last no longer tells what the files hold.
EditFile(f, v) ==
    /\ pc = "listening"
    /\ fs[f] # v
    /\ fs' = [fs EXCEPT ![f] = v]
    /\ req' = NoRequest
    /\ resp' = NoResponse
    /\ UNCHANGED <<envVars, pc, globals, listener, exit_code, threads,
                   jinja_cache, frames>>

\* The server in all the ways it can be started, asked for anything, while
\* the script and the stylesheet change under it.
Next ==
    \/ Import
    \/ Main
    \/ Accept
    \/ \E m \in Methods, p \in Paths, s \in Schemes : Handle(m, p, s)
    \/ \E f \in {AuthFile, StaticFile} : \E v \in Contents(f) : EditFile(f, v)

Spec == Init /\ [][Next]_vars

\* A second specification: a server that has started, asked for its pages
\* while the templates and the script change under it.
PageMethods == {"GET", "POST"}
PagePaths == {<<>>, <<"home">>, <<"auth.js">>, <<"does-not-exist">>}

InitPages ==
    /\ name = "__main__"
    /\ port_busy = FALSE
    /\ Boot(LaunchAway, File(<<"CERT", "k1">>), File(<<"KEY", "k1">>),
            File(<<"{# note #}", "{% if 0 %}h{% endif %}", "\n">>), File(<<>>))

NextPages ==
    \/ Import
    \/ Main
    \/ Accept
    \/ \E m \in PageMethods, p \in PagePaths : Handle(m, p, "https")
    \/ \E f \in {LandingFile, HomeFile, AuthFile} : \E v \in Contents(f) :
          EditFile(f, v)

SpecPages == InitPages /\ [][NextPages]_vars

----
\* Properties

IsHttp == resp.kind = "http"
IsGet(p) == IsHttp /\ req.method = "GET" /\ req.path = p
Present(f) == Read(f).exists
\* the template exists and renders without error
Renders(f) ==
    /\ Present(f)
    /\ SyntaxOk(Read(f).data)
    /\ RenderError(Read(f).data) = ""
Started == pc \in {"listening", "exited"}

\* C1: the listener only ever runs with TLS on, with the certificate and key
\* of certificates/ in the server's directory loaded; when either file is
\* missing or malformed at start the process ends with a nonzero exit status
\* and has answered nothing; no answer is ever sent over plaintext HTTP.
TlsOrNoStart ==
    /\ pc = "listening" =>
          /\ TlsOn
          /\ load_cert_chain(CertFile, KeyFile) = "ok"
          /\ listener[1].ssl = <<Read(CertFile).data, Read(KeyFile).data>>
    /\ (Started /\ load_cert_chain(CertFile, KeyFile) # "ok") =>
          /\ pc = "exited"
          /\ exit_code # 0 /\ exit_code # -1
          /\ listener = <<>>
          /\ resp.kind = "none"
    /\ resp.kind = "http" => resp.scheme = "https"
    /\ resp.kind = "tls_error" => req.scheme = "http"

\* C1 witness: the server was started without key.pem and exited with status 1.
MissingKeyExit ==
    /\ pc = "exited" /\ exit_code = 1
    /\ ~Present(KeyFile) /\ Present(CertFile) /\ ~port_busy

\* C2, as stated: GET / answers 200 with a non-empty HTML body equal to the
\* rendered template whenever landing_page.html exists.
LandingAlwaysNonEmpty ==
    (IsGet(<<>>) /\ Present(LandingFile)) =>
        /\ resp.status = 200
        /\ resp.ctype = "text/html"
        /\ resp.body # <<>>
        /\ resp.body = Render(Read(LandingFile).data)

\* C2, amended: GET / answers 200 with an HTML body equal to the rendering of
\* landing_page.html whenever that file exists and renders without error,
\* whatever was asked before; the body may be empty.  The template that is
\* a comment and a statement with nothing to show gives the empty body, the
\* one with text and an expression gives the text and the expression's value.
LandingRendered ==
    (IsGet(<<>>) /\ Renders(LandingFile)) =>
        /\ resp.status = 200
        /\ resp.ctype = "text/html"
        /\ resp.endpoint = "landing_page"
        /\ resp.body = Render(Read(LandingFile).data)
        /\ Read(LandingFile).data
              = <<"{# note #}", "{% if 0 %}h{% endif %}", "\n">> => resp.body = <<>>
        /\ Read(LandingFile).data = <<"h", "\r\n", "{{ 1+1 }}", "\n">> =>
              resp.body = <<"h", "\n", "2">>

\* C2 witness: GET / answered 200 with the rendered template, in a process
\* that has rendered the home page and has answered a failed request before.
LandingServedAfterOthers ==
    /\ IsGet(<<>>) /\ resp.status = 200 /\ resp.body = <<"h", "\n", "2">>
    /\ jinja_cache["home.html"] # <<>>
    /\ frames # {}

\* C3: GET /auth.js answers 200 with exactly the bytes of templates/auth.js in
\* the server's directory, and the serve_auth view never touches another file.
AuthBytes ==
    /\ (IsGet(<<"auth.js">>) /\ Present(AuthFile)) =>
          /\ resp.status = 200
          /\ resp.endpoint = "serve_auth"
          /\ resp.body = Read(AuthFile).data
          /\ resp.files = {AuthFile}
    /\ resp.endpoint = "serve_auth" => resp.files \subseteq {AuthFile}
    /\ AuthFile \in resp.files => req.path = <<"auth.js">>

\* C3 witness: the script, ending in a newline, was served whole.
AuthServed ==
    /\ IsGet(<<"auth.js">>) /\ resp.status = 200
    /\ resp.body = <<"h", "\n">>

\* C4, as stated: GET /home answers 200 with a non-empty HTML body equal to
\* the rendered template whenever home.html exists.
HomeAlwaysNonEmpty ==
    (IsGet(<<"home">>) /\ Present(HomeFile)) =>
        /\ resp.status = 200
        /\ resp.ctype = "text/html"
        /\ resp.body # <<>>
        /\ resp.body = Render(Read(HomeFile).data)

\* C4, amended: GET /home answers 200 with an HTML body equal to the
\* rendering of home.html whenever that file exists and renders without
\* error; the body may be empty.  The empty template gives the empty body,
\* the one line of text gives that text.
HomeRendered ==
    (IsGet(<<"home">>) /\ Renders(HomeFile)) =>
        /\ resp.status = 200
        /\ resp.ctype = "text/html"
        /\ resp.endpoint = "home_page"
        /\ resp.body = Render(Read(HomeFile).data)
        /\ Read(HomeFile).data = <<>> => resp.body = <<>>
        /\ Read(HomeFile).data = <<"h", "\n">> => resp.body = <<"h">>

\* C4 witness: GET /home answered 200 with the template's text, while the
\* landing page's template was one that does not render.
HomeServed ==
    /\ IsGet(<<"home">>) /\ resp.status = 200 /\ resp.body = <<"h">>
    /\ Present(LandingFile) /\ ~Renders(LandingFile)

ProgramPaths == {<<>>, <<"home">>, <<"auth.js">>}
ProgramViews == {"landing_page", "serve_auth", "home_page"}
UnderStatic(p) == Len(p) >= 2 /\ p[1] = "static"

\* C5, as stated: a GET for any path other than /, /home and /auth.js answers
\* 404, runs no view and touches no file.
OnlyThreePaths ==
    (IsHttp /\ req.method = "GET" /\ req.path \notin ProgramPaths) =>
        /\ resp.status = 404
        /\ resp.endpoint \notin ProgramViews
        /\ resp.files = {}

\* C5, amended: a GET for any path other than /, /home, /auth.js, the paths
\* under /static/ and the debugger's /console answers 404, runs no view and
\* touches no file.  A GET under /static/ is answered by the framework's
\* static view, never by a view of the program: 200 with the bytes of that
\* file of static/ in the server's directory when it exists, 404 when it does
\* not.  A GET for /console is answered by the debugger, never by a view of
\* the program and without reading a file: 200, or 400 when the debugger does
\* not trust the host the request names.
UnroutedIs404 ==
    (IsHttp /\ req.method = "GET" /\ req.path \notin ProgramPaths) =>
        /\ resp.endpoint \notin ProgramViews
        /\ (~UnderStatic(req.path) /\ req.path # console_path) =>
              /\ resp.status = 404
              /\ resp.endpoint = ""
              /\ resp.files = {}
        /\ req.path = <<"static", "app.css">> =>
              /\ resp.endpoint = "static"
              /\ Present(StaticFile) =>
                    /\ resp.status = 200
                    /\ resp.body = Read(StaticFile).data
                    /\ resp.files = {StaticFile}
              /\ ~Present(StaticFile) => resp.status = 404 /\ resp.files = {}
        /\ req.path = console_path =>
              /\ resp.endpoint = "debugger"
              /\ resp.status = IF host_trusted THEN 200 ELSE 400
              /\ resp.files = {}

\* C5 witness: GET /does-not-exist answered 404.
UnknownPath404 ==
    IsGet(<<"does-not-exist">>) /\ resp.status = 404 /\ resp.endpoint = ""

\* C6: whenever the server listens it listens on 0.0.0.0:5000 with debug on
\* and TLS on, with the certificate and key paths under the server's
\* directory, whatever the flags, the environment and the requests received.
ListenerFixed ==
    pc = "listening" =>
        /\ Len(listener) = 1
        /\ listener[1].host = "0.0.0.0"
        /\ listener[1].port = 5000
        /\ listener[1].debug = TRUE
        /\ listener[1].ssl # <<>>
        /\ app.debug = TRUE
        /\ cert_path = CertFile
        /\ key_path = KeyFile
        /\ resp.kind = "http" => resp.scheme = "https"

\* C6 witness: the server was started with --port and FLASK_RUN_PORT set and
\* has answered a request.
ListeningDespiteFlags ==
    /\ pc = "listening" /\ argv # <<>> /\ "FLASK_RUN_PORT=8080" \in environ
    /\ resp.kind = "http"

Handled == IsHttp /\ req.method \in {"GET", "HEAD"}
\* a request of this process has ended in the error of a missing template
AfterMissingFile == "TemplateNotFound" \in frames
MissingFileAnswers ==
    /\ (Handled /\ req.path = <<>> /\ ~Present(LandingFile)) => resp.status = 500
    /\ (Handled /\ req.path = <<"home">> /\ ~Present(HomeFile)) => resp.status = 500
    /\ (Handled /\ req.path = <<"auth.js">> /\ ~Present(AuthFile)) => resp.status = 404
    /\ resp.kind # "none" => pc = "listening" /\ exit_code = -1

\* C7, as stated: a request for a missing template ends in 500 and one for a
\* missing auth.js in 404, the process keeps running, and after such an error
\* a request for a path whose file is present answers 200.
PresentFileStill200 ==
    /\ MissingFileAnswers
    /\ (Handled /\ AfterMissingFile) =>
          /\ (req.path = <<>> /\ Present(LandingFile)) => resp.status = 200
          /\ (req.path = <<"home">> /\ Present(HomeFile)) => resp.status = 200
          /\ (req.path = <<"auth.js">> /\ Present(AuthFile)) => resp.status = 200

\* C7, amended: a request for a missing template ends in 500 and one for a
\* missing auth.js in 404, the process keeps running, and a request for a path
\* whose file is present and, for a template, renders without error answers
\* 200 at any time, so also after such an error.
RenderableFileStill200 ==
    /\ MissingFileAnswers
    /\ Handled =>
          /\ (req.path = <<>> /\ Renders(LandingFile)) => resp.status = 200
          /\ (req.path = <<"home">> /\ Renders(HomeFile)) => resp.status = 200
          /\ (req.path = <<"auth.js">> /\ Present(AuthFile)) => resp.status = 200

\* C7 witness: a request for a missing template has ended in 500, the landing
\* page's template is still missing, and /home is answered 200.
RecoveredAfter500 ==
    /\ AfterMissingFile
    /\ ~Present(LandingFile) /\ Renders(HomeFile)
    /\ IsGet(<<"home">>) /\ resp.status = 200

\* What the files alone give a request that reaches the application.
PageFromFile(f) ==
    IF Renders(f) THEN [status |-> 200, body |-> Render(Read(f).data)]
    ELSE [status |-> 500, body |-> <<"Traceback">>]
ScriptFromFile(f) ==
    IF Present(f) THEN [status |-> 200, body |-> Read(f).data]
    ELSE [status |-> 404, body |-> <<"Not Found">>]
FromFiles(method, path) ==
    LET a == IF path \notin ProgramPaths /\ ~UnderStatic(path)
             THEN [status |-> 404, body |-> <<"Not Found">>]
             ELSE IF method \notin {"GET", "HEAD", "OPTIONS"}
             THEN [status |-> 405, body |-> <<"Method Not Allowed">>]
             ELSE IF method = "OPTIONS" THEN [status |-> 200, body |-> <<>>]
             ELSE IF path = <<>> THEN PageFromFile(LandingFile)
             ELSE IF path = <<"home">> THEN PageFromFile(HomeFile)
             ELSE IF path = <<"auth.js">> THEN ScriptFromFile(AuthFile)
             ELSE ScriptFromFile(SrvDir \o path)
    IN  IF method = "HEAD" /\ a.status # 500 THEN [a EXCEPT !.body = <<>>] ELSE a
\* the request was passed on to the application, not taken by the debugger
ReachedApp == IsHttp /\ req.path # console_path
\* a step in which a thread answers its request
Answers == threads' < threads

PathsFromFile ==
    /\ pc # "boot" =>
          /\ root = SrvDir
          /\ BASE_DIR = SrvDir
          /\ cert_path = CertFile
          /\ key_path = KeyFile
    /\ pc = "listening" =>
          listener[1].ssl = <<Read(CertFile).data, Read(KeyFile).data>>
    /\ resp.endpoint = "serve_auth" =>
          /\ resp.files \subseteq {AuthFile}
          /\ (resp.status = 200 /\ req.method = "GET") =>
                resp.body = Read(AuthFile).data /\ resp.files = {AuthFile}

\* C9 witness: started from another directory, which holds an auth.js and a
\* key pair of its own, the server answered /auth.js with its own file.
ServedFromElsewhere ==
    /\ cwd = WorkDir /\ cwd # SrvDir
    /\ IsGet(<<"auth.js">>) /\ resp.status = 200
    /\ resp.body # Read(WorkAuthFile).data
    /\ listener[1].ssl # <<Read(WorkCertFile).data, Read(WorkKeyFile).data>>

\* C10: a POST, PUT or DELETE to /, /home or /auth.js answers 405 without
\* running a view or touching a file, and names GET, HEAD and OPTIONS as the
\* methods allowed.
OtherMethods405 ==
    (IsHttp /\ req.method \in {"POST", "PUT", "DELETE"} /\ req.path \in ProgramPaths) =>
        /\ resp.status = 405
        /\ resp.endpoint = ""
        /\ resp.files = {}
        /\ resp.allow = {"GET", "HEAD", "OPTIONS"}

\* C10 witness: POST /home answered 405.
PostHome405 ==
    /\ IsHttp /\ req.method = "POST" /\ req.path = <<"home">>
    /\ resp.status = 405

====
